---- MODULE Spec2Model ----
(***************************************************************************)
(* The three revalidation route handlers of next-graphcommerce:            *)
(*   /api/revalidate      (src/pages/api/revalidate.ts)                    *)
(*   /api/revalidate-all  (src/unnamed/part_000, lines 83-226)             *)
(*   /api/webhook/magento (src/unnamed/part_001)                           *)
(* One behaviour is the handling of one HTTP request.  A JavaScript string *)
(* is a sequence of one-character strings, so that startsWith, replace and *)
(* template literals are computed and not assumed.                         *)
(***************************************************************************)
EXTENDS Integers, Sequences, FiniteSets, TLC

\* ------------------------------------------------------------------ bounds

\* longest tag list and longest path list of a request to /api/revalidate
MaxParams == 2
\* longest free-form locale list of a request to /api/revalidate-all
MaxLocales == 2
\* most unknown-store locales in front of one known locale
MaxBadLocales == 10
\* most outbound calls of one request that the network fails
MaxFaults == 1
\* most products the backend lists in the large-catalogue specification
MaxWavePaths == 11

\* -------------------------------------------------------- program constants

batchSize == 10
errorSample == 10

\* ----------------------------------------------------------------- strings

RECURSIVE IndexFrom(_, _, _)
IndexFrom(s, pat, k) ==
    IF k + Len(pat) - 1 > Len(s) THEN 0
    ELSE IF SubSeq(s, k, k + Len(pat) - 1) = pat THEN k
    ELSE IndexFrom(s, pat, k + 1)

\* String.prototype.startsWith
startsWith(s, pat) ==
    Len(s) >= Len(pat) /\ SubSeq(s, 1, Len(pat)) = pat

\* String.prototype.replace with a string pattern: the first occurrence only
replace(s, pat, by) ==
    LET k == IndexFrom(s, pat, 1)
    IN  IF k = 0 THEN s
        ELSE SubSeq(s, 1, k - 1) \o by \o SubSeq(s, k + Len(pat), Len(s))

Slash == <<"/">>
sProduct == <<"p", "r", "o", "d", "u", "c", "t">>
sCategory == <<"c", "a", "t", "e", "g", "o", "r", "y">>
sProductColon == sProduct \o <<":">>
sCategoryColon == sCategory \o <<":">>
sPage == <<"p", "a", "g", "e">>
sCmsPage == <<"c", "m", "s", "_", "p", "a", "g", "e">>
sMenu == <<"m", "e", "n", "u">>
sLayout == <<"l", "a", "y", "o", "u", "t">>
sProductDir == <<"/", "p", "/">>

\* --------------------------------------------------- JavaScript value shapes

Undefined == [t |-> "undefined", v |-> <<>>]
StrV(s) == [t |-> "string", v |-> s]
ArrV(a) == [t |-> "array", v |-> a]

\* req.query[name] for the occurrences of name in the URL, in order
QueryValue(occ) ==
    IF Len(occ) = 0 THEN Undefined
    ELSE IF Len(occ) = 1 THEN StrV(occ[1])
    ELSE ArrV(occ)

ObjV(o) == [t |-> "object", v |-> o]
NumV(n) == [t |-> "number", v |-> n]

\* the truthiness of undefined, a string, a number, an array or an object
Truthy(x) ==
    CASE x.t = "undefined" -> FALSE
      [] x.t = "string" -> x.v # <<>>
      [] x.t = "number" -> x.v # 0
      [] OTHER -> TRUE

\* x?.f
Field(x, f) == IF x.t = "object" THEN x.v[f] ELSE Undefined

\* x === s for a string s
StrictEqual(x, s) == x.t = "string" /\ x.v = s

\* a || b
OrElse(a, b) == IF Truthy(a) THEN a ELSE b

\* Array.isArray(x) ? x : [x]
AsArray(x) == IF x.t = "array" THEN x.v ELSE <<x.v>>

\* x !== s for a string s
StrictNotEqual(x, s) == ~StrictEqual(x, s)

Min(a, b) == IF a < b THEN a ELSE b

\* all sequences over S of length at most n
SeqsUpTo(S, n) == UNION {[1..k -> S] : k \in 0..n}

\* [x, x, ..., x] (n times)
Repeat(x, n) == [k \in 1..n |-> x]

\* ------------------------------------------------------------------- state

VARIABLES
    endpoint,          \* the route the request is for
    req,               \* the request: method, query, headers, body
    envSecret,         \* process.env.REVALIDATE_SECRET
    sameDeployment,    \* the outbound base URL is this deployment
    backend,           \* what the path enumerators list for each locale
    pc,                \* where the handler is
    i,                 \* loop index (path loop, locale loop, batch start)
    paths,             \* revalidate.ts / webhook: paths
    revalidatedPaths,  \* revalidate.ts / webhook: revalidatedPaths
    allPaths,          \* revalidate-all: allPaths
    errors,            \* revalidate-all: errors
    uniquePaths,       \* revalidate-all: uniquePaths
    revalidatedCount,  \* revalidate-all: revalidatedCount
    calls,             \* the outbound calls of the request, by index of their path
    issued,            \* the outbound calls in the order they were issued
    wave,              \* number of batches issued so far
    faults,            \* outbound calls the network has failed so far
    primLog,           \* the calls of res.revalidate made by this handler, in order
    res                \* the response (status 0: none yet)

envVars == <<endpoint, req, envSecret, sameDeployment, backend>>
loopVars == <<paths, revalidatedPaths, allPaths, errors, uniquePaths, revalidatedCount>>
callVars == <<calls, issued, wave, faults>>
vars == <<envVars, pc, i, loopVars, callVars, primLog, res>>

NoResponse == [status |-> 0, body |-> <<>>]
Respond(code, body) == [status |-> code, body |-> body]

\* ---------------------------------------------------------- /api/revalidate

\* a check that only rejects a secret that was supplied and is wrong
SecretRejectedIfGiven(env, querySecret, headerSecret) ==
    /\ Truthy(env)
    /\ Truthy(OrElse(querySecret, headerSecret))
    /\ StrictNotEqual(OrElse(querySecret, headerSecret), env.v)

\* revalidate.ts:30-35, the check that guards the endpoint
SecretRejected(env, querySecret, headerSecret) ==
    /\ Truthy(env)
    /\ StrictNotEqual(OrElse(querySecret, headerSecret), env.v)

\* revalidate.ts:75-94, the path of one tag (none for a bare or unknown tag)
TagPath(t) ==
    IF startsWith(t, sProductColon)
    THEN <<sProductDir \o replace(t, sProductColon, <<>>)>>
    ELSE IF startsWith(t, sCategoryColon)
    THEN <<Slash \o replace(t, sCategoryColon, <<>>)>>
    ELSE <<>>

\* a tag loop that skips a path it already holds
RECURSIVE TagsToPathsUnique(_)
TagsToPathsUnique(tags) ==
    IF tags = <<>> THEN <<>>
    ELSE LET front == TagsToPathsUnique(SubSeq(tags, 1, Len(tags) - 1))
             p == TagPath(tags[Len(tags)])
         IN  IF p # <<>> /\ \E k \in 1..Len(front) : front[k] = p[1]
             THEN front ELSE front \o p

\* revalidate.ts:71-95, the tag loop
RECURSIVE TagsToPaths(_)
TagsToPaths(tags) ==
    IF tags = <<>> THEN <<>>
    ELSE TagPath(Head(tags)) \o TagsToPaths(Tail(tags))

\* a loop that a failed call ends
NextIndexAbort(k, ok, n) == IF ok THEN k + 1 ELSE n + 1

\* the loop goes on to the next path whether or not the call threw
NextIndex(k, ok, n) == k + 1

RevalidateStart ==
    /\ endpoint = "revalidate"
    /\ pc = "start"
    /\ LET tag == QueryValue(req.tag)
           pathToRevalidate == QueryValue(req.path)
       IN  IF SecretRejected(envSecret, QueryValue(req.secret), req.header)
           THEN /\ res' = Respond(401, [error |-> "Invalid secret token"])
                /\ pc' = "done"
                /\ UNCHANGED paths
           ELSE IF Truthy(pathToRevalidate)
           THEN /\ paths' = AsArray(pathToRevalidate)
                /\ pc' = "path_loop"
                /\ UNCHANGED res
           ELSE IF Truthy(tag)
           THEN /\ paths' = TagsToPaths(AsArray(tag))
                /\ pc' = "tag_loop"
                /\ UNCHANGED res
           ELSE /\ res' = Respond(400, [error |-> "Missing tag or path parameter"])
                /\ pc' = "done"
                /\ UNCHANGED paths
    /\ i' = 1
    /\ UNCHANGED <<envVars, revalidatedPaths, allPaths, errors, uniquePaths,
                   revalidatedCount, callVars, primLog>>

\* one iteration of either dispatch loop: await res.revalidate(p) in try/catch
RevalidateCall ==
    /\ endpoint = "revalidate"
    /\ pc \in {"path_loop", "tag_loop"}
    /\ i <= Len(paths)
    /\ \E ok \in BOOLEAN :
        /\ primLog' = Append(primLog, [path |-> paths[i], ok |-> ok])
        /\ revalidatedPaths' =
              IF ok THEN Append(revalidatedPaths, paths[i]) ELSE revalidatedPaths
        /\ i' = NextIndex(i, ok, Len(paths))
    /\ UNCHANGED <<envVars, pc, paths, allPaths, errors, uniquePaths,
                   revalidatedCount, callVars, res>>

RevalidateRespond ==
    /\ endpoint = "revalidate"
    /\ pc \in {"path_loop", "tag_loop"}
    /\ i > Len(paths)
    /\ res' = Respond(200,
                [revalidated |-> TRUE,
                 message |->
                    IF pc = "path_loop"
                    THEN <<"Revalidated ", Len(revalidatedPaths), " paths: ",
                           revalidatedPaths>>
                    ELSE <<"Revalidated ", Len(revalidatedPaths),
                           " paths from tags: ", AsArray(QueryValue(req.tag))>>])
    /\ pc' = "done"
    /\ UNCHANGED <<envVars, i, loopVars, callVars, primLog>>

NextRevalidate == RevalidateStart \/ RevalidateCall \/ RevalidateRespond

\* ------------------------------------------------- outbound /api/revalidate

\* an outbound call that forwards the configured secret
OutboundSecretForwarded == IF Truthy(envSecret) THEN <<envSecret.v>> ELSE <<>>

\* the secret an outbound call carries: part_000:185-187 and part_001:106-108
\* append only the path to the query and set no header
OutboundSecret == <<>>

\* fetch(`${baseUrl}/api/revalidate?path=...`, {method: 'GET'})
OutboundRequest(path) ==
    [ method |-> "GET", secret |-> OutboundSecret, header |-> Undefined,
      tag |-> <<>>, path |-> <<path>>, body |-> Undefined ]

\* what /api/revalidate of this deployment answers to request r, and whether it
\* called res.revalidate: revalidate.ts:30-115 (a failed res.revalidate is
\* caught at lines 55-57 and 103-105 and the answer is 200 all the same)
RemoteAnswer(env, r) ==
    IF SecretRejected(env, QueryValue(r.secret), r.header)
    THEN [st |-> "answered", code |-> 401, prim |-> FALSE]
    ELSE IF Truthy(QueryValue(r.path))
    THEN [st |-> "answered", code |-> 200, prim |-> TRUE]
    ELSE IF Truthy(QueryValue(r.tag))
    THEN [st |-> "answered", code |-> 200,
          prim |-> TagsToPaths(AsArray(QueryValue(r.tag))) # <<>>]
    ELSE [st |-> "answered", code |-> 400, prim |-> FALSE]

Idle == [st |-> "idle", code |-> 0, prim |-> FALSE]
Pending == [st |-> "pending", code |-> 0, prim |-> FALSE]
Threw == [st |-> "threw", code |-> 0, prim |-> FALSE]

\* the ways an outbound call for path can settle: fetch rejects (network), or
\* the addressed deployment answers
Outcomes(path) ==
    (IF faults < MaxFaults THEN {Threw} ELSE {})
    \cup (IF sameDeployment
          THEN {RemoteAnswer(envSecret, OutboundRequest(path))}
          ELSE {[st |-> "answered", code |-> 200, prim |-> FALSE],
                [st |-> "answered", code |-> 500, prim |-> FALSE]})

\* response.ok
ResponseOk(c) == c.st = "answered" /\ c.code \in 200..299

\* ------------------------------------------------------ /api/webhook/magento

\* a translator that falls back from url_key to sku
WebhookPathsSkuFallback(entity, data) ==
    IF StrictEqual(entity, sProduct) /\ Truthy(Field(data, "sku"))
    THEN <<sProductDir \o Field(data, "sku").v>>
    ELSE <<>>

\* part_001:43-90, the paths of a webhook payload
WebhookPaths(entity, data) ==
    (IF StrictEqual(entity, sProduct) /\ Truthy(Field(data, "url_key"))
     THEN <<sProductDir \o Field(data, "url_key").v>> ELSE <<>>)
    \o
    (IF StrictEqual(entity, sCategory) /\ Truthy(Field(data, "url_path"))
     THEN <<IF startsWith(Field(data, "url_path").v, Slash)
            THEN Field(data, "url_path").v
            ELSE Slash \o Field(data, "url_path").v>>
     ELSE <<>>)
    \o
    (IF (StrictEqual(entity, sPage) \/ StrictEqual(entity, sCmsPage))
        /\ Truthy(Field(data, "identifier"))
     THEN <<Slash \o Field(data, "identifier").v>> ELSE <<>>)

WebhookStart ==
    /\ endpoint = "webhook"
    /\ pc = "start"
    /\ LET entity == Field(req.body, "entity")
           action == Field(req.body, "action")
           data == Field(req.body, "data")
       IN  IF req.method # "POST"
           THEN /\ res' = Respond(405, [error |-> "Method not allowed"])
                /\ pc' = "done"
                /\ UNCHANGED <<paths, calls>>
           ELSE IF req.body.t # "object"
           THEN \* destructuring req.body throws; caught at line 132
                /\ res' = Respond(500, [error |-> "Internal server error"])
                /\ pc' = "done"
                /\ UNCHANGED <<paths, calls>>
           ELSE IF ~Truthy(entity) \/ ~Truthy(action)
           THEN /\ res' = Respond(400, [error |-> "Missing entity or action"])
                /\ pc' = "done"
                /\ UNCHANGED <<paths, calls>>
           ELSE IF Len(WebhookPaths(entity, data)) = 0
           THEN /\ res' = Respond(400,
                            [error |-> "Unknown entity type or missing path data"])
                /\ pc' = "done"
                /\ paths' = WebhookPaths(entity, data)
                /\ UNCHANGED calls
           ELSE /\ paths' = WebhookPaths(entity, data)
                /\ calls' = [k \in 1..Len(WebhookPaths(entity, data)) |-> Idle]
                /\ pc' = "wh_loop"
                /\ UNCHANGED res
    /\ i' = 1
    /\ UNCHANGED <<envVars, revalidatedPaths, allPaths, errors, uniquePaths,
                   revalidatedCount, issued, wave, faults, primLog>>

\* part_001:101-108, the call for paths[i] is issued
WebhookFetch ==
    /\ endpoint = "webhook"
    /\ pc = "wh_loop"
    /\ i <= Len(paths)
    /\ issued' = Append(issued, [idx |-> i, path |-> paths[i], wave |-> 0])
    /\ calls' = [calls EXCEPT ![i] = Pending]
    /\ pc' = "wh_wait"
    /\ UNCHANGED <<envVars, i, loopVars, wave, faults, primLog, res>>

\* part_001:110-118, the call settles
WebhookSettle ==
    /\ endpoint = "webhook"
    /\ pc = "wh_wait"
    /\ \E o \in Outcomes(paths[i]) :
        /\ calls' = [calls EXCEPT ![i] = o]
        /\ faults' = IF o.st = "threw" THEN faults + 1 ELSE faults
        /\ revalidatedPaths' =
              IF ResponseOk(o) THEN Append(revalidatedPaths, paths[i])
              ELSE revalidatedPaths
        /\ i' = NextIndex(i, ResponseOk(o), Len(paths))
    /\ pc' = "wh_loop"
    /\ UNCHANGED <<envVars, paths, allPaths, errors, uniquePaths,
                   revalidatedCount, issued, wave, primLog, res>>

WebhookRespond ==
    /\ endpoint = "webhook"
    /\ pc = "wh_loop"
    /\ i > Len(paths)
    /\ res' = Respond(200,
                [success |-> TRUE,
                 message |-> <<"Revalidated ", Len(revalidatedPaths), " paths">>])
    /\ pc' = "done"
    /\ UNCHANGED <<envVars, i, loopVars, callVars, primLog>>

NextWebhook == WebhookStart \/ WebhookFetch \/ WebhookSettle \/ WebhookRespond

\* ------------------------------------------------------ /api/revalidate-all

\* part_000:127, req.body?.locales || ['tr']
locales == OrElse(Field(req.body, "locales"), ArrV(<<"tr">>))

\* part_000:146 and 156, p.startsWith('/') ? p : `/${p}`
EnsureSlash(p) == IF startsWith(p, Slash) THEN p ELSE Slash \o p

MapEnsureSlash(ps) == [k \in 1..Len(ps) |-> EnsureSlash(ps[k])]

\* no de-duplication
DedupeNone(ps) == ps

\* part_000:169, [...new Set(allPaths)]: a Set keeps the first of equal values,
\* in insertion order
RECURSIVE Dedupe(_)
Dedupe(ps) ==
    IF ps = <<>> THEN <<>>
    ELSE LET front == Dedupe(SubSeq(ps, 1, Len(ps) - 1))
             last == ps[Len(ps)]
         IN  IF \E k \in 1..Len(front) : front[k] = last
             THEN front ELSE Append(front, last)

\* the indices of uniquePaths.slice(k, k + batchSize), 1-based
BatchIndices(k, n) == k .. Min(k + batchSize - 1, n)

\* Promise.race in place of Promise.all: one settled call ends the wait
BatchAnySettled(cs, k, n) == \E c \in BatchIndices(k, n) : cs[c].st # "pending"

\* await Promise.all(...): every call of the batch has settled (none of the
\* mapped functions rejects: each catches at part_000:198)
BatchSettled(cs, k, n) == \A c \in BatchIndices(k, n) : cs[c].st # "pending"

\* errors.slice(1, 11)
ErrorSliceFromSecond(es) == SubSeq(es, 2, Min(errorSample + 1, Len(es)))

\* part_000:218, errors.slice(0, 10)
ErrorSlice(es) == SubSeq(es, 1, Min(errorSample, Len(es)))

\* part_000:196 and 199, the message pushed for a call that did not succeed
CallError(path, o) ==
    IF o.st = "threw" THEN <<"Error revalidating ", path, ": ", "fetch failed">>
    ELSE <<"Failed to revalidate ", path, ": ", o.code>>

\* part_000:190, the count after one more call settled
CountAfter(count, o) == IF ResponseOk(o) THEN count + 1 ELSE count

\* part_000:205, uniquePaths.filter(p => p.startsWith('/p/')).length
productCount(ps) ==
    Cardinality({k \in 1..Len(ps) : startsWith(ps[k], sProductDir)})

\* part_000:206, uniquePaths.filter(p => !p.startsWith('/p/') && p !== '/').length
categoryCount(ps) ==
    Cardinality({k \in 1..Len(ps) : ~startsWith(ps[k], sProductDir) /\ ps[k] # Slash})

AllStart ==
    /\ endpoint = "all"
    /\ pc = "start"
    /\ IF req.method # "GET" /\ req.method # "POST"
       THEN /\ res' = Respond(405, [error |-> "Method not allowed"])
            /\ pc' = "done"
       ELSE IF locales.t # "array"
       THEN \* for...of over a value that is not iterable throws; caught at 220
            /\ res' = Respond(500, [error |-> "Internal server error"])
            /\ pc' = "done"
       ELSE /\ pc' = "all_locales"
            /\ UNCHANGED res
    /\ i' = 1
    /\ UNCHANGED <<envVars, loopVars, callVars, primLog>>

\* part_000:135-166, one locale: both enumerators, or the catch
AllLocale ==
    /\ endpoint = "all"
    /\ pc = "all_locales"
    /\ i <= Len(locales.v)
    /\ LET b == backend[locales.v[i]]
       IN  IF b.ok
           THEN /\ allPaths' = allPaths \o MapEnsureSlash(b.products)
                                        \o MapEnsureSlash(b.categories)
                /\ UNCHANGED errors
           ELSE /\ errors' = Append(errors,
                      <<"Error fetching paths for locale ", locales.v[i], ": ",
                        "fetch failed">>)
                /\ UNCHANGED allPaths
    /\ i' = i + 1
    /\ UNCHANGED <<envVars, pc, paths, revalidatedPaths, uniquePaths,
                   revalidatedCount, callVars, primLog, res>>

\* part_000:168-174
AllDedupe ==
    /\ endpoint = "all"
    /\ pc = "all_locales"
    /\ i > Len(locales.v)
    /\ uniquePaths' = Dedupe(allPaths)
    /\ calls' = [k \in 1..Len(Dedupe(allPaths)) |-> Idle]
    /\ i' = 1
    /\ pc' = "all_batch"
    /\ UNCHANGED <<envVars, paths, revalidatedPaths, allPaths, errors,
                   revalidatedCount, issued, wave, faults, primLog, res>>

\* part_000:176-187, batch.map starts every call of the batch
AllIssue ==
    /\ endpoint = "all"
    /\ pc = "all_batch"
    /\ i <= Len(uniquePaths)
    /\ LET batch == BatchIndices(i, Len(uniquePaths))
       IN  /\ calls' = [k \in 1..Len(calls) |->
                            IF k \in batch THEN Pending ELSE calls[k]]
           /\ issued' = issued \o
                  [k \in 1..Cardinality(batch) |->
                      [idx |-> i + k - 1, path |-> uniquePaths[i + k - 1],
                       wave |-> wave + 1]]
    /\ wave' = wave + 1
    /\ pc' = "all_wait"
    /\ UNCHANGED <<envVars, i, loopVars, faults, primLog, res>>

\* part_000:189-200, one call of the batch settles
AllSettle ==
    /\ endpoint = "all"
    /\ pc = "all_wait"
    /\ \E c \in 1..Len(calls) :
        /\ calls[c].st = "pending"
        /\ \E o \in Outcomes(uniquePaths[c]) :
            /\ calls' = [calls EXCEPT ![c] = o]
            /\ faults' = IF o.st = "threw" THEN faults + 1 ELSE faults
            /\ revalidatedCount' = CountAfter(revalidatedCount, o)
            /\ errors' = IF ResponseOk(o) THEN errors
                         ELSE Append(errors, CallError(uniquePaths[c], o))
    /\ UNCHANGED <<envVars, pc, i, paths, revalidatedPaths, allPaths,
                   uniquePaths, issued, wave, primLog, res>>

\* part_000:176 and 179, Promise.all resolved: i += batchSize
AllBatchDone ==
    /\ endpoint = "all"
    /\ pc = "all_wait"
    /\ BatchSettled(calls, i, Len(uniquePaths))
    /\ i' = i + batchSize
    /\ pc' = "all_batch"
    /\ UNCHANGED <<envVars, loopVars, callVars, primLog, res>>

\* part_000:205-219
AllRespond ==
    /\ endpoint = "all"
    /\ pc = "all_batch"
    /\ i > Len(uniquePaths)
    /\ LET revalidated == [products |-> productCount(uniquePaths),
                           categories |-> categoryCount(uniquePaths),
                           total |-> revalidatedCount]
           message == <<"Revalidated ", revalidatedCount, " out of ",
                        Len(uniquePaths), " paths">>
       IN  res' = Respond(200,
                    IF Len(errors) > 0
                    THEN [success |-> TRUE, message |-> message,
                          revalidated |-> revalidated,
                          errors |-> ErrorSlice(errors)]
                    ELSE [success |-> TRUE, message |-> message,
                          revalidated |-> revalidated])
    /\ pc' = "done"
    /\ UNCHANGED <<envVars, i, loopVars, callVars, primLog>>

NextAll ==
    AllStart \/ AllLocale \/ AllDedupe \/ AllIssue \/ AllSettle
        \/ AllBatchDone \/ AllRespond

\* ------------------------------------------------------------------ inputs

Good == <<"k">>
Bad == <<"x">>

TagValues ==
    { sProductColon \o <<"a">>, sCategoryColon \o <<"a">>, sProduct, sLayout }
PathValues == { <<"/", "p", "/", "a">>, <<"a">> }

NoBody == Undefined

RevalidateRequests ==
    [ method : {"GET", "PUT"},
      secret : {<<>>, <<Good>>, <<Bad>>, <<Good, Good>>},
      header : {Undefined, StrV(Good)},
      tag    : SeqsUpTo(TagValues, MaxParams),
      path   : SeqsUpTo(PathValues, MaxParams),
      body   : {NoBody} ]

Entities ==
    {Undefined} \cup
    {StrV(e) : e \in {sProduct, sCategory, sPage, sCmsPage, sMenu, sLayout,
                      <<"o", "r", "d", "e", "r">>}}

WebhookData ==
    {Undefined} \cup
    {ObjV(d) : d \in
        [ url_key    : {Undefined, StrV(<<"a">>)},
          sku        : {Undefined, StrV(<<"s">>)},
          url_path   : {Undefined, StrV(<<"c">>), StrV(<<"/", "c">>)},
          uid        : {Undefined, StrV(<<"u">>)},
          identifier : {Undefined, StrV(<<"a">>)} ]}

WebhookBodies ==
    {Undefined} \cup
    {ObjV(b) : b \in
        [ entity : Entities,
          action : {Undefined, StrV(<<"u", "p", "d", "a", "t", "e">>)},
          data   : WebhookData ]}

WebhookRequests ==
    [ method : {"POST", "GET"}, secret : {<<>>}, header : {Undefined},
      tag : {<<>>}, path : {<<>>}, body : WebhookBodies ]

LocaleNames == {"tr", "nl", "xx"}

\* the locale lists of the requests: every short list, and one known locale
\* behind a run of unknown ones
LocaleLists ==
    SeqsUpTo(LocaleNames, MaxLocales)
    \cup {Repeat("xx", n) \o <<"tr">> : n \in 0..MaxBadLocales}

AllBodies ==
    {Undefined, ObjV([locales |-> Undefined]), ObjV([locales |-> NumV(5)])}
    \cup {ObjV([locales |-> ArrV(l)]) : l \in LocaleLists}

AllRequests ==
    [ method : {"POST", "PUT"}, secret : {<<>>}, header : {Undefined},
      tag : {<<>>}, path : {<<>>}, body : AllBodies ]

\* what productPath and productListLink return for the routes of each store;
\* the store "xx" does not exist and its enumeration throws
SmallBackend ==
    [ l \in LocaleNames |->
        CASE l = "tr" -> [ok |-> TRUE,
                          products |-> << <<"/", "p", "/", "a">>, <<"p", "/", "b">> >>,
                          categories |-> << <<"c">> >>]
          [] l = "nl" -> [ok |-> TRUE,
                          products |-> << <<"p", "/", "a">> >>,
                          categories |-> << <<"/", "c">>, <<"/">> >>]
          [] OTHER -> [ok |-> FALSE, products |-> <<>>, categories |-> <<>>] ]

Digits == <<"0", "1", "2", "3", "4", "5", "6", "7", "8", "9">>
Numeral(n) == <<Digits[(n \div 10) + 1], Digits[(n % 10) + 1]>>

\* a store "tr" of n products and no category
BigBackend(n) ==
    [ l \in LocaleNames |->
        IF l = "tr"
        THEN [ok |-> TRUE,
              products |-> [k \in 1..n |-> sProductDir \o Numeral(k)],
              categories |-> <<>>]
        ELSE [ok |-> FALSE, products |-> <<>>, categories |-> <<>>] ]

InitHandler ==
    /\ pc = "start"
    /\ i = 1
    /\ paths = <<>>
    /\ revalidatedPaths = <<>>
    /\ allPaths = <<>>
    /\ errors = <<>>
    /\ uniquePaths = <<>>
    /\ revalidatedCount = 0
    /\ calls = <<>>
    /\ issued = <<>>
    /\ wave = 0
    /\ faults = 0
    /\ primLog = <<>>
    /\ res = NoResponse

InitRevalidate ==
    /\ endpoint = "revalidate"
    /\ req \in RevalidateRequests
    /\ envSecret \in {Undefined, StrV(Good)}
    /\ sameDeployment = TRUE
    /\ backend = SmallBackend

InitWebhook ==
    /\ endpoint = "webhook"
    /\ req \in WebhookRequests
    /\ envSecret \in {Undefined, StrV(Good)}
    /\ sameDeployment \in BOOLEAN
    /\ backend = SmallBackend

InitAll ==
    /\ endpoint = "all"
    /\ req \in AllRequests
    /\ envSecret \in {Undefined, StrV(Good)}
    /\ sameDeployment \in BOOLEAN
    /\ backend = SmallBackend

\* /api/revalidate-all over a large catalogue, open and calling itself
InitWaves ==
    /\ endpoint = "all"
    /\ req \in [ method : {"POST", "PUT"}, secret : {<<>>}, header : {Undefined},
                 tag : {<<>>}, path : {<<>>},
                 body : {ObjV([locales |-> NumV(5)]),
                         ObjV([locales |-> ArrV(<<"tr">>)]),
                         ObjV([locales |-> ArrV(<<"tr", "xx", "tr">>)])} ]
    /\ envSecret = Undefined
    /\ sameDeployment = TRUE
    /\ backend \in {BigBackend(n) : n \in 0..MaxWavePaths}

Init == InitHandler /\ (InitRevalidate \/ InitWebhook \/ InitAll)

Next == NextRevalidate \/ NextWebhook \/ NextAll

Spec == Init /\ [][Next]_vars

InitLarge == InitHandler /\ InitWaves

SpecWaves == InitLarge /\ [][NextAll]_vars

\* ------------------------------------------------------------------ claims

Done == pc = "done"
Answered200 == Done /\ res.status = 200
InSeq(x, sq) == \E k \in 1..Len(sq) : sq[k] = x
CallIndices == 1..Len(calls)
FailedCalls ==
    {c \in CallIndices : calls[c].st \in {"threw", "answered"} /\ ~ResponseOk(calls[c])}
OkCalls == {c \in CallIndices : ResponseOk(calls[c])}

\* C1: in /api/revalidate-all the L paths handed to the batch loop are called
\* in exactly ceil(L / 10) waves, each of at most 10 calls, and every call of
\* an earlier wave has settled before any call of a later wave is issued.
C1_WavesSequential ==
    endpoint = "all" =>
        /\ \A a, b \in 1..Len(issued) :
              issued[a].wave < issued[b].wave => calls[issued[a].idx].st # "pending"
        /\ \A c \in CallIndices :
              calls[c].st = "pending" => \E k \in 1..Len(issued) :
                  issued[k].idx = c /\ issued[k].wave = wave
        /\ Answered200 =>
              /\ wave = (Len(uniquePaths) + batchSize - 1) \div batchSize
              /\ Len(issued) = Len(uniquePaths)
              /\ \A c \in CallIndices : calls[c].st \in {"threw", "answered"}

\* C1 witness: a request of more than 10 paths ended after two waves, one call
\* of the first wave having failed.
C1_Witness ==
    /\ endpoint = "all" /\ Answered200
    /\ Len(uniquePaths) > batchSize
    /\ wave = 2
    /\ \E c \in 1..batchSize : calls[c].st = "threw"

\* C2: /api/revalidate-all issues at most one outbound call per distinct path,
\* however often the path was listed and whether or not its call failed.
C2_AtMostOneCallPerPath ==
    endpoint = "all" =>
        \A a, b \in 1..Len(issued) : issued[a].path = issued[b].path => a = b

\* C2 witness: a path was listed more than once, every distinct path was
\* called, and one of the calls failed.
C2_Witness ==
    /\ endpoint = "all" /\ Answered200
    /\ Len(allPaths) > Len(uniquePaths)
    /\ Len(issued) = Len(uniquePaths)
    /\ FailedCalls # {}

SecretOmitted ==
    /\ endpoint = "revalidate"
    /\ Truthy(envSecret)
    /\ req.secret = <<>>
    /\ req.header = Undefined

\* C3: with REVALIDATE_SECRET set, a request to /api/revalidate that carries
\* neither the secret parameter nor the header is answered 401 whatever its
\* tag and path parameters, and res.revalidate is never called.
C3_MissingSecretRejected ==
    SecretOmitted =>
        /\ primLog = <<>>
        /\ pc \in {"start", "done"}
        /\ Done => res = Respond(401, [error |-> "Invalid secret token"])

\* C3 witness: such a request, with both a tag and a path, was answered 401.
C3_Witness ==
    /\ SecretOmitted /\ Done
    /\ req.tag # <<>> /\ req.path # <<>>
    /\ res.status = 401

OneFailureRestSucceed ==
    /\ Cardinality(FailedCalls) = 1
    /\ Cardinality(OkCalls) = Len(calls) - 1
    /\ OkCalls # {}

\* C4 as claimed: when one call of a batch fails and the rest succeed,
\* /api/revalidate-all answers success:true, total is the number of calls that
\* succeeded, and the failing path's message is in the errors of the response.
C4_FailureMessageReported ==
    (endpoint = "all" /\ Answered200 /\ OneFailureRestSucceed) =>
        /\ res.body.success = TRUE
        /\ res.body.revalidated.total = Cardinality(OkCalls)
        /\ \A c \in FailedCalls :
              InSeq(CallError(uniquePaths[c], calls[c]), res.body.errors)

\* C4 amended: the answer is success:true, total is the number of calls that
\* succeeded, every failed call has its message in the handler's error list,
\* and the response carries the first 10 messages of that list (the locale
\* errors come first): a failing path's message is in the response when it
\* is among the first 10.
C4_FirstTenErrorsReported ==
    (endpoint = "all" /\ Answered200) =>
        /\ res.body.success = TRUE
        /\ res.body.revalidated.total = Cardinality(OkCalls)
        /\ \A c \in FailedCalls : InSeq(CallError(uniquePaths[c], calls[c]), errors)
        /\ Len(errors) > 0 =>
              /\ Len(res.body.errors) = Min(errorSample, Len(errors))
              /\ \A k \in 1..Len(errors) :
                    k <= errorSample => res.body.errors[k] = errors[k]

\* C4 witness: one call failed, the others succeeded, and the message of the
\* failed call is in the response.
C4_Witness ==
    /\ endpoint = "all" /\ Answered200 /\ OneFailureRestSucceed
    /\ \A c \in FailedCalls :
          InSeq(CallError(uniquePaths[c], calls[c]), res.body.errors)

UnsupportedMethod ==
    \/ endpoint = "revalidate" /\ req.method \notin {"GET", "POST"}
    \/ endpoint = "all" /\ req.method \notin {"GET", "POST"}
    \/ endpoint = "webhook" /\ req.method # "POST"

\* C5: each endpoint answers 405 to a request whose method it does not
\* support, and revalidates nothing for it.
C5_MethodNotAllowed ==
    UnsupportedMethod =>
        /\ primLog = <<>>
        /\ issued = <<>>
        /\ Done => res.status = 405

TagBranch ==
    /\ endpoint = "revalidate"
    /\ ~Truthy(QueryValue(req.path))
    /\ Truthy(QueryValue(req.tag))

\* C6 as claimed: when the tag list of /api/revalidate repeats a tag,
\* res.revalidate is called at most once for the path of that tag.
C6_RepeatedTagCalledOnce ==
    TagBranch =>
        \A a, b \in 1..Len(primLog) : primLog[a].path = primLog[b].path => a = b

\* C6 amended: duplicates are not removed; for every product:<X> or
\* category:<X> tag of the list, res.revalidate is called for its path once per
\* occurrence of the tag.
C6_TagCalledPerOccurrence ==
    (TagBranch /\ Answered200) =>
        LET tags == AsArray(QueryValue(req.tag))
        IN  \A k \in 1..Len(tags) :
                TagPath(tags[k]) # <<>> =>
                    Cardinality({j \in 1..Len(primLog) :
                                    primLog[j].path = TagPath(tags[k])[1]})
                    = Cardinality({j \in 1..Len(tags) :
                                    TagPath(tags[j]) = TagPath(tags[k])})

\* C6 witness: a tag given twice, and its path revalidated twice.
C6_Witness ==
    /\ TagBranch /\ Answered200
    /\ Len(req.tag) = 2 /\ req.tag[1] = req.tag[2]
    /\ Len(primLog) = 2 /\ primLog[1].path = primLog[2].path

\* C7: every path handed to res.revalidate or to an outbound /api/revalidate
\* call begins with "/".
C7_PathsBeginWithSlash ==
    /\ \A k \in 1..Len(primLog) : startsWith(primLog[k].path, Slash)
    /\ \A k \in 1..Len(issued) : startsWith(issued[k].path, Slash)

ZeroPathPayload ==
    /\ endpoint = "webhook"
    /\ req.method = "POST"
    /\ Truthy(Field(req.body, "entity"))
    /\ Truthy(Field(req.body, "action"))
    /\ LET entity == Field(req.body, "entity").v
           data == Field(req.body, "data")
       IN  \/ entity \notin {sProduct, sCategory, sPage, sCmsPage}
           \/ entity = sProduct /\ Field(data, "url_key") = Undefined
           \/ entity = sCategory /\ Field(data, "url_path") = Undefined
           \/ entity \in {sPage, sCmsPage} /\ Field(data, "identifier") = Undefined

\* C8: a POST to /api/webhook/magento with entity and action present from
\* which no path is derived (unknown entity, menu, layout, product without
\* url_key, category without url_path, page without identifier) is answered
\* 400 "Unknown entity type or missing path data" and no outbound call is made.
C8_ZeroPathsRejected ==
    ZeroPathPayload =>
        /\ issued = <<>>
        /\ pc \in {"start", "done"}
        /\ Done => res = Respond(400,
                          [error |-> "Unknown entity type or missing path data"])

\* C8 witness: a product payload with a sku and no url_key was answered 400.
C8_Witness ==
    /\ ZeroPathPayload /\ Done
    /\ Field(req.body, "entity") = StrV(sProduct)
    /\ Truthy(Field(Field(req.body, "data"), "sku"))
    /\ res.status = 400

PathsOf(sq) == [k \in 1..Len(sq) |-> sq[k].path]

\* C9: the dispatch loops of /api/revalidate and /api/webhook/magento make one
\* attempt (res.revalidate, respectively the outbound call) per element of
\* paths, in order; a failed attempt neither ends the loop nor is repeated,
\* and revalidatedPaths is the subsequence of the paths whose attempt succeeded.
C9_OneAttemptPerPathInOrder ==
    /\ endpoint = "revalidate" =>
          /\ Len(primLog) <= Len(paths)
          /\ PathsOf(primLog) = SubSeq(paths, 1, Len(primLog))
          /\ revalidatedPaths = PathsOf(SelectSeq(primLog, LAMBDA e : e.ok))
          /\ Answered200 => Len(primLog) = Len(paths)
    /\ endpoint = "webhook" =>
          /\ Len(issued) <= Len(paths)
          /\ PathsOf(issued) = SubSeq(paths, 1, Len(issued))
          /\ \A k \in 1..Len(issued) : issued[k].idx = k
          /\ revalidatedPaths =
                PathsOf(SelectSeq(issued, LAMBDA e : ResponseOk(calls[e.idx])))
          /\ Answered200 =>
                /\ Len(issued) = Len(paths)
                /\ res.body.message = <<"Revalidated ", Len(revalidatedPaths), " paths">>

\* C9 witness: the first of two paths failed, the second was still attempted
\* and succeeded, and only the second is counted.
C9_Witness ==
    /\ endpoint = "revalidate" /\ Answered200
    /\ Len(paths) = 2
    /\ Len(primLog) = 2 /\ ~primLog[1].ok /\ primLog[2].ok
    /\ revalidatedPaths = <<paths[2]>>

SelfCallWithSecret ==
    /\ endpoint \in {"webhook", "all"}
    /\ Truthy(envSecret)
    /\ sameDeployment

\* C10: with REVALIDATE_SECRET set and the base URL addressing this
\* deployment, the calls of /api/webhook/magento and /api/revalidate-all carry
\* no secret, every answer to them is 401, res.revalidate is never called for
\* them, and the webhook still answers success:true "Revalidated 0 paths"
\* whenever it derived a path.
C10_SelfCallsUnauthorized ==
    SelfCallWithSecret =>
        /\ \A c \in CallIndices :
              /\ ~calls[c].prim
              /\ calls[c].st = "answered" => calls[c].code = 401
        /\ primLog = <<>>
        /\ OkCalls = {}
        /\ (endpoint = "all" /\ Answered200) => res.body.revalidated.total = 0
        /\ (endpoint = "webhook" /\ Done /\ paths # <<>>) =>
              res = Respond(200, [success |-> TRUE,
                                  message |-> <<"Revalidated ", 0, " paths">>])

\* C10 witness: the webhook derived a path, its call was answered 401, and
\* the webhook answered 200.
C10_Witness ==
    /\ SelfCallWithSecret /\ endpoint = "webhook" /\ Done
    /\ Len(paths) = 1
    /\ calls[1].st = "answered" /\ calls[1].code = 401
    /\ res.status = 200

====
